---- MODULE Spec2Model ----
(***************************************************************************)
(* Client side of the Telegram mini-app template: the auth-header resolver *)
(* (front/telegram.js, TelegramWebApp), the data-call helpers              *)
(* (front/app.js, ArenaApp.apiRequest and App.apiRequest) and the page     *)
(* navigation of App (front/app.js, App.navigateToPage).                   *)
(*                                                                         *)
(* JavaScript runs one callback at a time, so every action below is one    *)
(* run-to-completion piece of a handler: from its call, or from the        *)
(* settling of the promise it awaits, to its next await or to its end.     *)
(***************************************************************************)
EXTENDS Integers, Sequences, FiniteSets, TLC

\* ---------------------------------------------------------------- bounds
\* number of navigateToPage calls in one run
MaxNavs == 2

\* ------------------------------------------------------------ JS values
\* the JavaScript null of a field that was never assigned a string
null == "<null>"

\* JavaScript truthiness of a string-or-null value: null and '' are falsy
Truthy(v) == v # null /\ v # ""

\* init-data strings the host may expose (window.Telegram.WebApp.initData)
InitDataValues == {"", "query_id=1"}

\* window.Telegram.WebApp: absent, or present with an initData string
WindowTelegramValues ==
    {[present |-> FALSE, initData |-> ""]}
        \cup {[present |-> TRUE, initData |-> d] : d \in InitDataValues}

\* header names and the fixed values the client uses
ContentType == "Content-Type"
ApplicationJson == "application/json"
XTelegramInitData == "X-Telegram-Init-Data"
XDevAuth == "X-Dev-Auth"
devAuthHeader == "dev-user-bypass"

\* header sets a caller hands to App.apiRequest in options.headers
\* (the empty function is an options object without headers)
CallerHeaderSets ==
    { <<>>,
      ("X-Custom" :> "1"),
      (ContentType :> "text/plain") @@ ("X-Custom" :> "1") }

\* ---------------------------------------------------------------- pages
\* AppConfig.pages.paths: page name -> base path of its three resources
paths == ("main" :> "pages/main/") @@ ("profile" :> "pages/profile/")

\* names navigateToPage is called with; "doesNotExist" is not registered
PageNames == {"main", "profile", "doesNotExist"}

\* ids reserved for the style and script element of the current page
PageCssId == "page-css"
PageJsId == "page-js"

\* --------------------------------------------------------- data calls
\* number of apiRequest calls a behaviour issues
MaxCalls == 1

\* AppConfig.api.maxRetries
maxRetries == 3

\* HTTP statuses the server answers with
Statuses == {200, 201, 304, 404}

\* JavaScript null and undefined as object values
nullObject == [isNull |-> TRUE]
undefinedObject == [isUndefined |-> TRUE]

\* the user record the backend holds
UserObject == [telegram_id |-> "123456789", first_name |-> "John"]

\* the user record after an update
UpdatedUserObject == [telegram_id |-> "123456789", first_name |-> "Johnny"]

\* the two shapes of a user response: an envelope { user: {...} }, or the
\* user object itself
ResponseBodies == {[user |-> UserObject], UserObject, [user |-> UpdatedUserObject]}

\* number of operations of ArenaApp a behaviour starts through
\* refreshUserData and updateUserData
MaxArenaCalls == 2

\* JSON.stringify(data) of a call without data
EmptyData == [members |-> <<>>]

\* whitespace characters
Whitespace == {" "}

\* JSON tokens: scalar values and object keys
JsonScalars == {"1", "true"}
JsonKeys == {"\"level\""}

\* texts of #user-data-input, character by character or token by token:
\* empty, blank, an unterminated object, a bare word, a padded object
UpdateInputs ==
    { <<>>,
      <<" ", " ">>,
      <<"{", "\"level\"", ":", "1">>,
      <<"hello">>,
      <<" ", "{", "\"level\"", ":", " ", "1", "}", " ">> }

\* a call that has not parsed a body
noBody == [none |-> TRUE]

VARIABLES
    winTelegram,     \* window.Telegram.WebApp as the host exposes it now
    enableDevMode,   \* AppConfig.app.enableDevMode
    telegramApp,     \* the TelegramWebApp object: webApp, initData, isInitialized
    lastRequest,     \* the last data request handed to fetch
    currentPage,     \* App.currentPage
    appContent,      \* innerHTML of the main container, #app
    head,            \* the elements navigateToPage appended to document.head
    navs,            \* the navigateToPage calls, in the order they were issued
    settled,         \* history: the settled awaits, <<"fetch" | "text", call>>
    auth,            \* the authenticateUser call that initializeApp started
    currentUser,     \* App.currentUser
    calls,           \* the apiRequest calls, in the order they were issued
    currentUserData, \* ArenaApp.currentUserData
    assetLoad,       \* load state of the page-css and the page-js element
    arenaStatus      \* the message ArenaApp.showStatus wrote last

envVars == <<winTelegram, enableDevMode, telegramApp>>
docVars == <<currentPage, appContent, head, assetLoad>>
dataVars == <<auth, currentUser, calls, currentUserData, arenaStatus>>
vars == <<winTelegram, enableDevMode, telegramApp, lastRequest,
          currentPage, appContent, head, navs, settled,
          auth, currentUser, calls, currentUserData, assetLoad, arenaStatus>>

\* ------------------------------------------------------ TelegramWebApp
\* constructor + init(): the fields after construction, given window.Telegram
TelegramInit(win) ==
    IF win.present
    THEN [webApp |-> TRUE, initData |-> win.initData, isInitialized |-> TRUE]
    ELSE [webApp |-> FALSE, initData |-> null, isInitialized |-> FALSE]

\* mutant: the dev-bypass token is sent along with the init data
AuthHeadersOf_Both(initData) ==
    IF Truthy(initData)
    THEN (ContentType :> ApplicationJson) @@ (XTelegramInitData :> initData)
            @@ (XDevAuth :> devAuthHeader)
    ELSE (ContentType :> ApplicationJson)

\* mutant: the dev-bypass configuration is looked at before the init data
AuthHeadersOf_DevFirst(initData) ==
    IF enableDevMode
    THEN (ContentType :> ApplicationJson) @@ (XDevAuth :> devAuthHeader)
    ELSE IF Truthy(initData)
    THEN (ContentType :> ApplicationJson) @@ (XTelegramInitData :> initData)
    ELSE (ContentType :> ApplicationJson)

\* mutant: the identity header is set without the test of the init data
AuthHeadersOf_NoGuard(initData) ==
    (ContentType :> ApplicationJson) @@ (XTelegramInitData :> initData)

\* the body of getAuthHeaders(), given this.initData: Content-Type, plus the
\* init data under X-Telegram-Init-Data when it is truthy
AuthHeadersOf(initData) ==
    IF Truthy(initData)
    THEN (ContentType :> ApplicationJson) @@ (XTelegramInitData :> initData)
    ELSE (ContentType :> ApplicationJson)

\* mutant: the init data is read from window.Telegram on every call
getAuthHeaders_Live == AuthHeadersOf(TelegramInit(winTelegram).initData)

\* getAuthHeaders() of the TelegramWebApp object: it reads this.initData
getAuthHeaders == AuthHeadersOf(telegramApp.initData)

\* window.tgApp.isInTelegram: the host runtime was found at start-up
isInTelegram == telegramApp.isInitialized

\* App.apiRequest: defaultHeaders
defaultHeaders ==
    IF isInTelegram THEN getAuthHeaders ELSE (ContentType :> ApplicationJson)

\* mutant: the spread order is reversed, the resolver's value wins
MergeHeaders_DefaultsWin(defaults, extra) ==
    [k \in (DOMAIN defaults) \cup (DOMAIN extra) |->
        IF k \in DOMAIN defaults THEN defaults[k] ELSE extra[k]]

\* App.apiRequest: { ...defaultHeaders, ...options.headers }
MergeHeaders(defaults, extra) ==
    [k \in (DOMAIN defaults) \cup (DOMAIN extra) |->
        IF k \in DOMAIN extra THEN extra[k] ELSE defaults[k]]

\* the mode a header set stands for
ModeOf(h) ==
    IF XTelegramInitData \in DOMAIN h THEN "host"
    ELSE IF XDevAuth \in DOMAIN h THEN "devBypass"
    ELSE "anonymous"

NoRequest == [site |-> "none", resolved |-> <<>>, extra |-> <<>>, headers |-> <<>>]

\* ------------------------------------------------------------ documents
\* the welcome shell index.html puts into #app
WelcomeContent == <<"welcome">>

\* showError(message): the error panel written into #app
ShowError(message) == <<"error-container", message>>

\* mutant: the catch passes the message of the error it caught
FailedToLoadPage_ErrorMessage(pageName) == <<"Page not found: ", pageName>>

\* the message navigateToPage's catch hands to showError
FailedToLoadPage(pageName) == <<"Failed to load page: ", pageName>>

\* the document the server holds at a markup path: a shell around a body
ServedHtml(htmlPath) ==
    [shell |-> <<"<html><head>", htmlPath, "</head>">>,
     body |-> <<"<div class=page-container>", htmlPath, "</div>">>]

\* mutant: the whole fetched document is injected, shell included
BodyInnerHTML_WholeDocument(htmlContent) == htmlContent.shell

\* DOMParser.parseFromString(htmlContent, 'text/html').body.innerHTML
BodyInnerHTML(htmlContent) == htmlContent.body

\* mutant: the lookup result is not tested
PageFound_Always(pageName) == TRUE

\* AppConfig.pages.paths[pageName] is truthy
PageFound(pageName) == pageName \in DOMAIN paths

\* AppConfig.pages.paths[pageName]; a missing key reads as undefined
PageConfig(pageName) ==
    IF pageName \in DOMAIN paths THEN paths[pageName] ELSE "undefined"

\* `${pageConfig}index.html`, `${pageConfig}style.css`, `${pageConfig}app.js`
HtmlPath(pageConfig) == <<pageConfig, "index.html">>
CssPath(pageConfig) == <<pageConfig, "style.css">>
JsPath(pageConfig) == <<pageConfig, "app.js">>

\* number of elements of h that carry the id
CountId(h, id) == Cardinality({i \in 1..Len(h) : h[i].id = id})

\* document.getElementById(id): index of the first element with the id, or 0
GetElementById(h, id) ==
    IF \E i \in 1..Len(h) : h[i].id = id
    THEN CHOOSE i \in 1..Len(h) :
            /\ h[i].id = id
            /\ \A j \in 1..(i - 1) : h[j].id # id
    ELSE 0

\* element.remove() of the element at index i
RemoveAt(h, i) == [j \in 1..(Len(h) - 1) |-> IF j < i THEN h[j] ELSE h[j + 1]]

\* mutant: the existing element is looked up but not removed
RemoveExisting_Keep(h, id) == h

\* const existing = document.getElementById(id); if (existing) existing.remove()
RemoveExisting(h, id) ==
    IF GetElementById(h, id) # 0 THEN RemoveAt(h, GetElementById(h, id)) ELSE h

\* document.head.appendChild(el)
AppendChild(h, el) == Append(h, el)

\* mutant: an existing link element is kept and no new one is appended
LoadPageCss_KeepsExisting(h, pageConfig) ==
    IF GetElementById(h, PageCssId) # 0
    THEN h
    ELSE AppendChild(h, [id |-> PageCssId, tag |-> "link",
                         url |-> CssPath(pageConfig)])

\* navigateToPage, "Load page CSS": drop the old link, append the new one
LoadPageCss(h, pageConfig) ==
    AppendChild(RemoveExisting(h, PageCssId),
                [id |-> PageCssId, tag |-> "link", url |-> CssPath(pageConfig)])

\* mutant: the new script is appended without dropping the old one
LoadPageJs_NoRemove(h, pageConfig) ==
    AppendChild(h, [id |-> PageJsId, tag |-> "script", url |-> JsPath(pageConfig)])

\* navigateToPage, "Load page JavaScript": drop the old script, append the new
LoadPageJs(h, pageConfig) ==
    AppendChild(RemoveExisting(h, PageJsId),
                [id |-> PageJsId, tag |-> "script", url |-> JsPath(pageConfig)])

\* ------------------------------------------------------------- actions
\* the host changes what it exposes (the SDK script loads late, or the
\* embedding page replaces window.Telegram)
HostChange ==
    /\ \E w \in WindowTelegramValues :
          /\ w # winTelegram
          /\ winTelegram' = w
    /\ UNCHANGED <<enableDevMode, telegramApp, lastRequest>>
    /\ UNCHANGED <<docVars, navs, settled, dataVars>>

\* mutant: resolving the headers runs init() again and re-reads the host
ArenaApiRequest_Reinit ==
    /\ lastRequest' = [site |-> "ArenaApp.apiRequest",
                       resolved |-> getAuthHeaders,
                       extra |-> <<>>,
                       headers |-> getAuthHeaders]
    /\ telegramApp' = TelegramInit(winTelegram)
    /\ UNCHANGED <<winTelegram, enableDevMode>>
    /\ UNCHANGED <<docVars, navs, settled, dataVars>>

\* ArenaApp.apiRequest(endpoint, data): fetch with getAuthHeaders()
ArenaApiRequest ==
    /\ lastRequest' = [site |-> "ArenaApp.apiRequest",
                       resolved |-> getAuthHeaders,
                       extra |-> <<>>,
                       headers |-> getAuthHeaders]
    /\ UNCHANGED <<envVars, docVars, navs, settled, dataVars>>

\* App.apiRequest(endpoint, options): fetch with the merged headers
AppApiRequest ==
    /\ \E extra \in CallerHeaderSets :
          lastRequest' = [site |-> "App.apiRequest",
                          resolved |-> defaultHeaders,
                          extra |-> extra,
                          headers |-> MergeHeaders(defaultHeaders, extra)]
    /\ UNCHANGED <<envVars, docVars, navs, settled, dataVars>>

\* --------------------------------------------------------- navigateToPage
\* mutant: a new navigation cancels the navigations that are still pending
NavigateToPage_Supersedes(pageName) ==
    /\ Len(navs) < MaxNavs
    /\ PageFound(pageName)
    /\ navs' = Append([j \in 1..Len(navs) |->
                          IF navs[j].pc # "done"
                          THEN [navs[j] EXCEPT !.pc = "done",
                                               !.error = "cancelled",
                                               !.promise = "fulfilled"]
                          ELSE navs[j]],
                      [pageName |-> pageName, pc |-> "fetch",
                       requests |-> 1, error |-> "",
                       promise |-> "pending",
                       overlapped |-> \E j \in 1..Len(navs) :
                                         navs[j].pc # "done"])
    /\ UNCHANGED <<envVars, lastRequest, docVars, settled, dataVars>>

\* navigateToPage(pageName), from the call to the first await: the lookup
\* throws for an unknown page (the catch shows the error panel), otherwise
\* the markup fetch is issued and the call is suspended
NavigateToPage(pageName) ==
    /\ Len(navs) < MaxNavs
    /\ IF ~PageFound(pageName)
       THEN /\ navs' = Append(navs, [pageName |-> pageName, pc |-> "done",
                                     requests |-> 0, error |-> "not found",
                                     promise |-> "fulfilled",
                                     overlapped |-> \E j \in 1..Len(navs) :
                                                       navs[j].pc # "done"])
            /\ appContent' = ShowError(FailedToLoadPage(pageName))
       ELSE /\ navs' = Append(navs, [pageName |-> pageName, pc |-> "fetch",
                                     requests |-> 1, error |-> "",
                                     promise |-> "pending",
                                     overlapped |-> \E j \in 1..Len(navs) :
                                                       navs[j].pc # "done"])
            /\ UNCHANGED appContent
    /\ UNCHANGED <<envVars, lastRequest, currentPage, head, assetLoad, settled, dataVars>>

\* await fetch(htmlPath) settles with a success status: the body read starts
FetchOk(i) ==
    /\ navs[i].pc = "fetch"
    /\ navs' = [navs EXCEPT ![i].pc = "text"]
    /\ settled' = Append(settled, <<"fetch", i>>)
    /\ UNCHANGED <<envVars, lastRequest, docVars, dataVars>>

\* mutant: currentPage is assigned before the markup has been fetched
FetchFailed_SetsPage(i) ==
    /\ navs[i].pc = "fetch"
    /\ \E e \in {"rejected", "not ok"} :
          navs' = [navs EXCEPT ![i].pc = "done", ![i].error = e,
                                ![i].promise = "fulfilled"]
    /\ settled' = Append(settled, <<"fetch", i>>)
    /\ appContent' = ShowError(FailedToLoadPage(navs[i].pageName))
    /\ currentPage' = navs[i].pageName
    /\ UNCHANGED <<envVars, lastRequest, head, assetLoad, dataVars>>

\* await fetch(htmlPath) rejects, or settles with a status that is not ok:
\* the catch shows the error panel
FetchFailed(i) ==
    /\ navs[i].pc = "fetch"
    /\ \E e \in {"rejected", "not ok"} :
          navs' = [navs EXCEPT ![i].pc = "done", ![i].error = e,
                                ![i].promise = "fulfilled"]
    /\ settled' = Append(settled, <<"fetch", i>>)
    /\ appContent' = ShowError(FailedToLoadPage(navs[i].pageName))
    /\ UNCHANGED <<envVars, lastRequest, currentPage, head, assetLoad, dataVars>>

\* mutant: a navigation commits only while it is the one issued last
TextOk_LastIssuedWins(i) ==
    /\ navs[i].pc = "text"
    /\ navs' = [navs EXCEPT ![i].pc = "done", ![i].promise = "fulfilled"]
    /\ settled' = Append(settled, <<"text", i>>)
    /\ IF i = Len(navs)
       THEN /\ appContent' =
                  BodyInnerHTML(ServedHtml(HtmlPath(PageConfig(navs[i].pageName))))
            /\ head' = LoadPageJs(LoadPageCss(head, PageConfig(navs[i].pageName)),
                                  PageConfig(navs[i].pageName))
            /\ currentPage' = navs[i].pageName
            /\ assetLoad' = [css |-> "loading", js |-> "loading"]
       ELSE UNCHANGED docVars
    /\ UNCHANGED <<envVars, lastRequest, dataVars>>

\* mutant: the page is shown, but its name is not stored
TextOk_NoPageUpdate(i) ==
    /\ navs[i].pc = "text"
    /\ navs' = [navs EXCEPT ![i].pc = "done", ![i].promise = "fulfilled"]
    /\ settled' = Append(settled, <<"text", i>>)
    /\ appContent' =
          BodyInnerHTML(ServedHtml(HtmlPath(PageConfig(navs[i].pageName))))
    /\ head' = LoadPageJs(LoadPageCss(head, PageConfig(navs[i].pageName)),
                          PageConfig(navs[i].pageName))
    /\ assetLoad' = [css |-> "loading", js |-> "loading"]
    /\ UNCHANGED <<envVars, lastRequest, currentPage, dataVars>>

\* await htmlResponse.text() settles: the body of the markup goes into #app,
\* the style and the script element are swapped, currentPage is set
TextOk(i) ==
    /\ navs[i].pc = "text"
    /\ navs' = [navs EXCEPT ![i].pc = "done", ![i].promise = "fulfilled"]
    /\ settled' = Append(settled, <<"text", i>>)
    /\ appContent' =
          BodyInnerHTML(ServedHtml(HtmlPath(PageConfig(navs[i].pageName))))
    /\ head' = LoadPageJs(LoadPageCss(head, PageConfig(navs[i].pageName)),
                          PageConfig(navs[i].pageName))
    /\ currentPage' = navs[i].pageName
    /\ assetLoad' = [css |-> "loading", js |-> "loading"]
    /\ UNCHANGED <<envVars, lastRequest, dataVars>>

\* mutant: the catch shows the error panel and throws the error on
TextFailed_Rethrows(i) ==
    /\ navs[i].pc = "text"
    /\ navs' = [navs EXCEPT ![i].pc = "done", ![i].error = "body",
                             ![i].promise = "rejected"]
    /\ settled' = Append(settled, <<"text", i>>)
    /\ appContent' = ShowError(FailedToLoadPage(navs[i].pageName))
    /\ UNCHANGED <<envVars, lastRequest, currentPage, head, assetLoad, dataVars>>

\* mutant: the catch also removes the style and script of the current page
TextFailed_RemovesAssets(i) ==
    /\ navs[i].pc = "text"
    /\ navs' = [navs EXCEPT ![i].pc = "done", ![i].error = "body",
                             ![i].promise = "fulfilled"]
    /\ settled' = Append(settled, <<"text", i>>)
    /\ appContent' = ShowError(FailedToLoadPage(navs[i].pageName))
    /\ head' = RemoveExisting(RemoveExisting(head, PageCssId), PageJsId)
    /\ UNCHANGED <<envVars, lastRequest, currentPage, assetLoad, dataVars>>

\* await htmlResponse.text() rejects (the connection drops during the body)
TextFailed(i) ==
    /\ navs[i].pc = "text"
    /\ navs' = [navs EXCEPT ![i].pc = "done", ![i].error = "body",
                             ![i].promise = "fulfilled"]
    /\ settled' = Append(settled, <<"text", i>>)
    /\ appContent' = ShowError(FailedToLoadPage(navs[i].pageName))
    /\ UNCHANGED <<envVars, lastRequest, currentPage, head, assetLoad, dataVars>>

\* the message initializeApp and handleStart hand to showError
MustBeOpenedFromTelegram == <<"This app must be opened from Telegram">>

\* mutant: the start button navigates without the test of isInTelegram
HandleStart_NoCheck == NavigateToPage("main")

\* handleStart(): navigateToPage('main') in Telegram (not awaited), the
\* error panel otherwise
HandleStart ==
    IF isInTelegram
    THEN NavigateToPage("main")
    ELSE /\ appContent' = ShowError(MustBeOpenedFromTelegram)
         /\ UNCHANGED <<envVars, lastRequest, currentPage, head, assetLoad>>
         /\ UNCHANGED <<navs, settled, dataVars>>

\* the reserved elements whose resource the browser loads
AssetKinds == {"css", "js"}

\* the browser has loaded the stylesheet or the script of the page
AssetLoaded(k) ==
    /\ assetLoad[k] = "loading"
    /\ assetLoad' = [assetLoad EXCEPT ![k] = "loaded"]
    /\ UNCHANGED <<envVars, lastRequest, currentPage, appContent, head>>
    /\ UNCHANGED <<navs, settled, dataVars>>

\* mutant: the element has an onerror handler that shows the error panel
AssetFailed_ShowsError(k) ==
    /\ assetLoad[k] = "loading"
    /\ assetLoad' = [assetLoad EXCEPT ![k] = "error"]
    /\ appContent' = ShowError(FailedToLoadPage(currentPage))
    /\ UNCHANGED <<envVars, lastRequest, currentPage, head>>
    /\ UNCHANGED <<navs, settled, dataVars>>

\* the load of the stylesheet or the script of the page fails: the element
\* has no onerror handler and navigateToPage has returned
AssetFailed(k) ==
    /\ assetLoad[k] = "loading"
    /\ assetLoad' = [assetLoad EXCEPT ![k] = "error"]
    /\ UNCHANGED <<envVars, lastRequest, currentPage, appContent, head>>
    /\ UNCHANGED <<navs, settled, dataVars>>

\* ------------------------------------------------------------ data calls
\* response.ok of the fetch Response: the status is in the range 200-299
ResponseOk(status) == status >= 200 /\ status <= 299

\* ArenaApp.apiRequest: if (!response.ok) throw
ArenaRejects(status) == ~ResponseOk(status)

\* App.authenticateUser: if (!response.ok && response.status !== 201) throw
AuthRejects(status) == ~ResponseOk(status) /\ status # 201

\* mutant: the two tests are joined with || instead of &&
AppRejects_Or(status) == ~ResponseOk(status) \/ status # 201

\* App.apiRequest: if (!response.ok && response.status !== 201) throw
AppRejects(status) == ~ResponseOk(status) /\ status # 201

\* the test the call site applies to the status of its response
SiteRejects(site, status) ==
    IF site = "ArenaApp.apiRequest" THEN ArenaRejects(status)
    ELSE AppRejects(status)

\* property access result.user: undefined when the object has no such key
UserOf(result) ==
    IF "user" \in DOMAIN result THEN result.user ELSE undefinedObject

\* JavaScript truthiness of an object-or-null-or-undefined value
TruthyObject(v) == v # nullObject /\ v # undefinedObject

\* result.user || result
UserOrResult(result) ==
    IF TruthyObject(UserOf(result)) THEN UserOf(result) ELSE result

\* String.prototype.trim(): leading and trailing whitespace is removed
RECURSIVE TrimStart(_)
TrimStart(s) ==
    IF s # <<>> /\ Head(s) \in Whitespace THEN TrimStart(Tail(s)) ELSE s

RECURSIVE TrimEnd(_)
TrimEnd(s) ==
    IF s # <<>> /\ s[Len(s)] \in Whitespace
    THEN TrimEnd(SubSeq(s, 1, Len(s) - 1))
    ELSE s

Trim(s) == TrimEnd(TrimStart(s))

\* the tokens of a text, whitespace between them dropped
IsToken(c) == c \notin Whitespace
Tokens(s) == SelectSeq(s, IsToken)

\* JSON.parse(text): the parsed value, or the SyntaxError it throws
JsonParse(s) ==
    LET t == Tokens(s) IN
    IF Len(t) = 1 /\ t[1] \in JsonScalars
    THEN [ok |-> TRUE, value |-> [scalar |-> t[1]]]
    ELSE IF t = <<"{", "}">>
    THEN [ok |-> TRUE, value |-> [members |-> <<>>]]
    ELSE IF /\ Len(t) = 5
            /\ t[1] = "{" /\ t[2] \in JsonKeys /\ t[3] = ":"
            /\ t[4] \in JsonScalars /\ t[5] = "}"
    THEN [ok |-> TRUE, value |-> [members |-> <<t[2], [scalar |-> t[4]]>>]]
    ELSE [ok |-> FALSE, value |-> undefinedObject]

\* a suspended call, right after its fetch was issued: the operation that
\* made it and the data it sent
NewCall(site, op, sent) ==
    [site |-> site, op |-> op, sent |-> sent,
     pc |-> "fetch", status |-> 0, error |-> "",
     requests |-> 1, promise |-> "pending", opPromise |-> "pending",
     body |-> noBody]

\* the promise of the operation when its apiRequest settles as p: the
\* ArenaApp operations catch the error, App.updateUserData returns p
OpPromise(c, p) == IF c.site = "ArenaApp.apiRequest" THEN "fulfilled" ELSE p

\* the message the catch of an ArenaApp operation hands to showStatus
FailedStatus(op) ==
    IF op = "loadUserData"
    THEN "Failed to load user data"
    ELSE "Failed to update user data"

\* the message an ArenaApp operation shows at its end
SucceededStatus(op) ==
    IF op = "loadUserData"
    THEN "User data loaded successfully!"
    ELSE "User data updated successfully!"

\* #status after the failure of call c
StatusAfterFailure(c) ==
    IF c.site = "ArenaApp.apiRequest" THEN FailedStatus(c.op) ELSE arenaStatus

\* ArenaApp.loadUserData(), to the await of fetch inside apiRequest
StartLoadUserData ==
    /\ lastRequest' = [site |-> "ArenaApp.apiRequest",
                       resolved |-> getAuthHeaders,
                       extra |-> <<>>,
                       headers |-> getAuthHeaders]
    /\ calls' = Append(calls, NewCall("ArenaApp.apiRequest", "loadUserData",
                                      EmptyData))
    /\ arenaStatus' = "Loading user data..."
    /\ UNCHANGED <<envVars, docVars, navs, settled>>
    /\ UNCHANGED <<auth, currentUser, currentUserData>>

\* window.loadUserData(), the Load and the Try Again button
LoadUserData ==
    /\ Len(calls) < MaxCalls
    /\ StartLoadUserData

\* ArenaApp.refreshUserData(): this.loadUserData()
RefreshUserData ==
    /\ Len(calls) < MaxArenaCalls
    /\ StartLoadUserData

\* mutant: the text of the input is sent when it does not parse
ArenaUpdateUserData_SendsUnparsed(input) ==
    LET inputValue == Trim(input)
        parsed == JsonParse(inputValue)
    IN  IF inputValue = <<>>
        THEN /\ arenaStatus' = "Please enter some data to update"
             /\ UNCHANGED <<envVars, lastRequest, docVars, navs, settled>>
             /\ UNCHANGED <<auth, currentUser, calls, currentUserData>>
        ELSE /\ Len(calls) < MaxArenaCalls
             /\ lastRequest' = [site |-> "ArenaApp.apiRequest",
                                resolved |-> getAuthHeaders,
                                extra |-> <<>>,
                                headers |-> getAuthHeaders]
             /\ calls' = Append(calls,
                     NewCall("ArenaApp.apiRequest", "updateUserData",
                             [user_data |-> IF parsed.ok THEN parsed.value
                                            ELSE [text |-> inputValue]]))
             /\ arenaStatus' = "Updating user data..."
             /\ UNCHANGED <<envVars, docVars, navs, settled>>
             /\ UNCHANGED <<auth, currentUser, currentUserData>>

\* ArenaApp.updateUserData(), to its return or to the await of fetch inside
\* apiRequest: the input is trimmed and parsed, and sent as { user_data }
ArenaUpdateUserData(input) ==
    LET inputValue == Trim(input)
        parsed == JsonParse(inputValue)
    IN  IF inputValue = <<>>
        THEN /\ arenaStatus' = "Please enter some data to update"
             /\ UNCHANGED <<envVars, lastRequest, docVars, navs, settled>>
             /\ UNCHANGED <<auth, currentUser, calls, currentUserData>>
        ELSE IF ~parsed.ok
        THEN /\ arenaStatus' = "Invalid JSON format"
             /\ UNCHANGED <<envVars, lastRequest, docVars, navs, settled>>
             /\ UNCHANGED <<auth, currentUser, calls, currentUserData>>
        ELSE /\ Len(calls) < MaxArenaCalls
             /\ lastRequest' = [site |-> "ArenaApp.apiRequest",
                                resolved |-> getAuthHeaders,
                                extra |-> <<>>,
                                headers |-> getAuthHeaders]
             /\ calls' = Append(calls,
                     NewCall("ArenaApp.apiRequest", "updateUserData",
                             [user_data |-> parsed.value]))
             /\ arenaStatus' = "Updating user data..."
             /\ UNCHANGED <<envVars, docVars, navs, settled>>
             /\ UNCHANGED <<auth, currentUser, currentUserData>>

\* App.updateUserData(data), to the await of fetch inside apiRequest; the
\* options carry a method and a body, no headers
UpdateUserData ==
    /\ Len(calls) < MaxCalls
    /\ lastRequest' = [site |-> "App.apiRequest",
                       resolved |-> defaultHeaders,
                       extra |-> <<>>,
                       headers |-> MergeHeaders(defaultHeaders, <<>>)]
    /\ calls' = Append(calls, NewCall("App.apiRequest", "updateUserData",
                                      EmptyData))
    /\ UNCHANGED <<envVars, docVars, navs, settled>>
    /\ UNCHANGED <<auth, currentUser, currentUserData, arenaStatus>>

\* mutant: a rejected fetch is issued again, up to maxRetries times
CallFetchRejected_Retry(i) ==
    /\ calls[i].pc = "fetch"
    /\ IF calls[i].requests < maxRetries
       THEN /\ calls' = [calls EXCEPT ![i].requests = @ + 1]
            /\ UNCHANGED arenaStatus
       ELSE /\ calls' = [calls EXCEPT ![i].pc = "done", ![i].error = "network",
                                      ![i].promise = "rejected",
                                      ![i].opPromise = OpPromise(calls[i], "rejected")]
            /\ arenaStatus' = StatusAfterFailure(calls[i])
    /\ UNCHANGED <<envVars, lastRequest, docVars, navs, settled>>
    /\ UNCHANGED <<auth, currentUser, currentUserData>>

\* await fetch(...) rejects (no response): the error leaves apiRequest; the
\* catch of an ArenaApp operation shows it
CallFetchRejected(i) ==
    /\ calls[i].pc = "fetch"
    /\ calls' = [calls EXCEPT ![i].pc = "done", ![i].error = "network",
                                ![i].promise = "rejected",
                                ![i].opPromise = OpPromise(calls[i], "rejected")]
    /\ arenaStatus' = StatusAfterFailure(calls[i])
    /\ UNCHANGED <<envVars, lastRequest, docVars, navs, settled>>
    /\ UNCHANGED <<auth, currentUser, currentUserData>>

\* await fetch(...) settles with a response: the status test, then either
\* the throw (ArenaApp reads the error text first) or the body parse
CallResponse(i) ==
    /\ calls[i].pc = "fetch"
    /\ \E status \in Statuses :
          calls' =
            IF ~SiteRejects(calls[i].site, status)
            THEN [calls EXCEPT ![i].pc = "json", ![i].status = status]
            ELSE IF calls[i].site = "ArenaApp.apiRequest"
            THEN [calls EXCEPT ![i].pc = "errorText", ![i].status = status]
            ELSE [calls EXCEPT ![i].pc = "done", ![i].status = status,
                               ![i].error = "http", ![i].promise = "rejected",
                               ![i].opPromise = "rejected"]
    /\ UNCHANGED <<envVars, lastRequest, docVars, navs, settled>>
    /\ UNCHANGED <<auth, currentUser, currentUserData, arenaStatus>>

\* mutant: the catch of the operation throws the error on
CallErrorText_Rethrows(i) ==
    /\ calls[i].pc = "errorText"
    /\ \E e \in {"http", "body"} :
          calls' = [calls EXCEPT ![i].pc = "done", ![i].error = e,
                                 ![i].promise = "rejected",
                                 ![i].opPromise = "rejected"]
    /\ arenaStatus' = StatusAfterFailure(calls[i])
    /\ UNCHANGED <<envVars, lastRequest, docVars, navs, settled>>
    /\ UNCHANGED <<auth, currentUser, currentUserData>>

\* ArenaApp.apiRequest: await response.text() of the error response settles;
\* the HTTP error is thrown, or the error of the body read; the catch of
\* the operation shows it
CallErrorText(i) ==
    /\ calls[i].pc = "errorText"
    /\ \E e \in {"http", "body"} :
          calls' = [calls EXCEPT ![i].pc = "done", ![i].error = e,
                                 ![i].promise = "rejected",
                                 ![i].opPromise = OpPromise(calls[i], "rejected")]
    /\ arenaStatus' = StatusAfterFailure(calls[i])
    /\ UNCHANGED <<envVars, lastRequest, docVars, navs, settled>>
    /\ UNCHANGED <<auth, currentUser, currentUserData>>

\* mutant: the record is cleared when the body does not parse
CallJsonFailed_Clears(i) ==
    /\ calls[i].pc = "json"
    /\ calls' = [calls EXCEPT ![i].pc = "done", ![i].error = "parse",
                                ![i].promise = "rejected",
                                ![i].opPromise = OpPromise(calls[i], "rejected")]
    /\ currentUserData' = IF calls[i].site = "ArenaApp.apiRequest"
                          THEN undefinedObject
                          ELSE currentUserData
    /\ arenaStatus' = StatusAfterFailure(calls[i])
    /\ UNCHANGED <<envVars, lastRequest, docVars, navs, settled>>
    /\ UNCHANGED <<auth, currentUser>>

\* response.json() rejects (the body is not JSON): the parse error leaves
\* apiRequest; the catch of an ArenaApp operation shows it and stores nothing
CallJsonFailed(i) ==
    /\ calls[i].pc = "json"
    /\ calls' = [calls EXCEPT ![i].pc = "done", ![i].error = "parse",
                                ![i].promise = "rejected",
                                ![i].opPromise = OpPromise(calls[i], "rejected")]
    /\ arenaStatus' = StatusAfterFailure(calls[i])
    /\ UNCHANGED <<envVars, lastRequest, docVars, navs, settled>>
    /\ UNCHANGED <<auth, currentUser, currentUserData>>

\* mutant: the response of a call is stored only while no call was issued
\* after it
CallJsonOk_DropsStale(i) ==
    /\ calls[i].pc = "json"
    /\ \E body \in ResponseBodies :
          /\ calls' = [calls EXCEPT ![i].pc = "done", ![i].body = body,
                                    ![i].promise = "fulfilled",
                                    ![i].opPromise = "fulfilled"]
          /\ currentUserData' =
                IF calls[i].site = "ArenaApp.apiRequest" /\ i = Len(calls)
                THEN UserOrResult(body)
                ELSE currentUserData
    /\ arenaStatus' = IF calls[i].site = "ArenaApp.apiRequest"
                      THEN SucceededStatus(calls[i].op)
                      ELSE arenaStatus
    /\ UNCHANGED <<envVars, lastRequest, docVars, navs, settled>>
    /\ UNCHANGED <<auth, currentUser>>

\* response.json() settles with the parsed body: apiRequest returns it; the
\* ArenaApp operations store responseData.user || responseData and show
\* the success message
CallJsonOk(i) ==
    /\ calls[i].pc = "json"
    /\ \E body \in ResponseBodies :
          /\ calls' = [calls EXCEPT ![i].pc = "done", ![i].body = body,
                                    ![i].promise = "fulfilled",
                                    ![i].opPromise = "fulfilled"]
          /\ currentUserData' = IF calls[i].site = "ArenaApp.apiRequest"
                                THEN UserOrResult(body)
                                ELSE currentUserData
    /\ arenaStatus' = IF calls[i].site = "ArenaApp.apiRequest"
                      THEN SucceededStatus(calls[i].op)
                      ELSE arenaStatus
    /\ UNCHANGED <<envVars, lastRequest, docVars, navs, settled>>
    /\ UNCHANGED <<auth, currentUser>>

\* ------------------------------------------------------- authenticateUser
\* the message authenticateUser's catch hands to showError
AuthenticationFailed == <<"Authentication failed">>

\* mutant: the catch logs the error and shows nothing
AuthFetchRejected_Silent ==
    /\ auth.pc = "fetch"
    /\ auth' = [auth EXCEPT !.pc = "done", !.error = "network"]
    /\ UNCHANGED <<envVars, lastRequest, docVars, navs, settled>>
    /\ UNCHANGED <<currentUser, calls, currentUserData, arenaStatus>>

\* await fetch(url) rejects: the catch shows the error panel
AuthFetchRejected ==
    /\ auth.pc = "fetch"
    /\ auth' = [auth EXCEPT !.pc = "done", !.error = "network"]
    /\ appContent' = ShowError(AuthenticationFailed)
    /\ UNCHANGED <<envVars, lastRequest, currentPage, head, assetLoad, navs, settled>>
    /\ UNCHANGED <<currentUser, calls, currentUserData, arenaStatus>>

\* await fetch(url) settles with a response: the status test, then either
\* the throw into the catch or the body parse
AuthResponse ==
    /\ auth.pc = "fetch"
    /\ \E status \in Statuses :
          IF AuthRejects(status)
          THEN /\ auth' = [auth EXCEPT !.pc = "done", !.status = status,
                                       !.error = "http"]
               /\ appContent' = ShowError(AuthenticationFailed)
          ELSE /\ auth' = [auth EXCEPT !.pc = "json", !.status = status]
               /\ UNCHANGED appContent
    /\ UNCHANGED <<envVars, lastRequest, currentPage, head, assetLoad, navs, settled>>
    /\ UNCHANGED <<currentUser, calls, currentUserData, arenaStatus>>

\* await response.json() rejects: the catch shows the error panel
AuthJsonFailed ==
    /\ auth.pc = "json"
    /\ auth' = [auth EXCEPT !.pc = "done", !.error = "parse"]
    /\ appContent' = ShowError(AuthenticationFailed)
    /\ UNCHANGED <<envVars, lastRequest, currentPage, head, assetLoad, navs, settled>>
    /\ UNCHANGED <<currentUser, calls, currentUserData, arenaStatus>>

\* mutant: the user record is stored and the page name is set with it
AuthJsonOk_SetsPage ==
    /\ auth.pc = "json"
    /\ \E body \in ResponseBodies :
          /\ auth' = [auth EXCEPT !.pc = "done", !.body = body]
          /\ currentUser' = UserOrResult(body)
    /\ currentPage' = "main"
    /\ UNCHANGED <<envVars, lastRequest, appContent, head, assetLoad, navs, settled>>
    /\ UNCHANGED <<calls, currentUserData, arenaStatus>>

\* await response.json() settles: currentUser = result.user || result
\* (showAuthenticatedState relabels the start button, nothing else)
AuthJsonOk ==
    /\ auth.pc = "json"
    /\ \E body \in ResponseBodies :
          /\ auth' = [auth EXCEPT !.pc = "done", !.body = body]
          /\ currentUser' = UserOrResult(body)
    /\ UNCHANGED <<envVars, lastRequest, docVars, navs, settled>>
    /\ UNCHANGED <<calls, currentUserData, arenaStatus>>

\* ------------------------------------- authenticateUser, earlier variant
\* the earlier App class: if (!response.ok) throw
EarlierAuthRejects(status) == ~ResponseOk(status)

\* the earlier App class, await fetch settles with a response
EarlierAuthResponse ==
    /\ auth.pc = "fetch"
    /\ \E status \in Statuses :
          IF EarlierAuthRejects(status)
          THEN /\ auth' = [auth EXCEPT !.pc = "done", !.status = status,
                                       !.error = "http"]
               /\ appContent' = ShowError(AuthenticationFailed)
          ELSE /\ auth' = [auth EXCEPT !.pc = "json", !.status = status]
               /\ UNCHANGED appContent
    /\ UNCHANGED <<envVars, lastRequest, currentPage, head, assetLoad, navs, settled>>
    /\ UNCHANGED <<currentUser, calls, currentUserData, arenaStatus>>

\* the earlier App class, await response.json() settles:
\* currentUser = result.user
EarlierAuthJsonOk ==
    /\ auth.pc = "json"
    /\ \E body \in ResponseBodies :
          /\ auth' = [auth EXCEPT !.pc = "done", !.body = body]
          /\ currentUser' = UserOf(body)
    /\ UNCHANGED <<envVars, lastRequest, docVars, navs, settled>>
    /\ UNCHANGED <<calls, currentUserData, arenaStatus>>

\* the authenticateUser call before initializeApp has run it
NoAuth == [pc |-> "idle", status |-> 0, error |-> "", body |-> noBody]

\* App constructor: currentPage = null; initializeApp shows the error panel
\* when the app does not run in Telegram, and otherwise runs authenticateUser
\* to its await of fetch; ArenaApp constructor: currentUserData = null
Init ==
    /\ winTelegram \in WindowTelegramValues
    /\ enableDevMode \in BOOLEAN
    /\ telegramApp = TelegramInit(winTelegram)
    /\ lastRequest = IF isInTelegram
                     THEN [site |-> "App.authenticateUser",
                           resolved |-> getAuthHeaders,
                           extra |-> <<>>,
                           headers |-> getAuthHeaders]
                     ELSE NoRequest
    /\ currentPage = null
    /\ appContent = IF isInTelegram
                    THEN WelcomeContent
                    ELSE ShowError(MustBeOpenedFromTelegram)
    /\ head = <<>>
    /\ navs = <<>>
    /\ settled = <<>>
    /\ auth = IF isInTelegram THEN [NoAuth EXCEPT !.pc = "fetch"] ELSE NoAuth
    /\ currentUser = nullObject
    /\ calls = <<>>
    /\ currentUserData = nullObject
    /\ assetLoad = [css |-> "none", js |-> "none"]
    /\ arenaStatus = ""

Navigation ==
    \/ \E pageName \in PageNames : NavigateToPage(pageName)
    \/ \E i \in 1..Len(navs) : FetchOk(i)
    \/ \E i \in 1..Len(navs) : FetchFailed(i)
    \/ \E i \in 1..Len(navs) : TextOk(i)
    \/ \E i \in 1..Len(navs) : TextFailed(i)

Next ==
    \/ HostChange
    \/ ArenaApiRequest
    \/ AppApiRequest
    \/ Navigation

\* the host signals stay what they were at start-up
NextFixedHost ==
    \/ ArenaApiRequest
    \/ AppApiRequest
    \/ Navigation

\* the settling of the awaits of authenticateUser
Authentication ==
    \/ AuthFetchRejected
    \/ AuthResponse
    \/ AuthJsonFailed
    \/ AuthJsonOk

\* the settling of the awaits of the apiRequest calls
CallSettles ==
    \/ \E i \in 1..Len(calls) : CallFetchRejected(i)
    \/ \E i \in 1..Len(calls) : CallResponse(i)
    \/ \E i \in 1..Len(calls) : CallErrorText(i)
    \/ \E i \in 1..Len(calls) : CallJsonFailed(i)
    \/ \E i \in 1..Len(calls) : CallJsonOk(i)

\* authentication and the data calls of both applications
NextData ==
    \/ Authentication
    \/ LoadUserData
    \/ UpdateUserData
    \/ CallSettles

\* navigation, authentication and the data calls together
NextApp ==
    \/ Navigation
    \/ Authentication
    \/ LoadUserData
    \/ UpdateUserData
    \/ CallSettles

\* the earlier App class: its authentication, with a host that may change
NextEarlier ==
    \/ HostChange
    \/ AuthFetchRejected
    \/ EarlierAuthResponse
    \/ AuthJsonFailed
    \/ EarlierAuthJsonOk

\* the settling of the awaits of the navigateToPage calls
NavigationSettles ==
    \/ \E i \in 1..Len(navs) : FetchOk(i)
    \/ \E i \in 1..Len(navs) : FetchFailed(i)
    \/ \E i \in 1..Len(navs) : TextOk(i)
    \/ \E i \in 1..Len(navs) : TextFailed(i)

\* the App class driven through its start button only
NextStart ==
    \/ HandleStart
    \/ NavigationSettles
    \/ Authentication

\* navigation, from any caller and from the start button
NextNav ==
    \/ Navigation
    \/ HandleStart

\* navigation and the loading of the resources it inserts
NextAssets ==
    \/ NextNav
    \/ \E k \in AssetKinds : AssetLoaded(k)
    \/ \E k \in AssetKinds : AssetFailed(k)

\* the operations of ArenaApp and the settling of their awaits
NextArena ==
    \/ RefreshUserData
    \/ \E input \in UpdateInputs : ArenaUpdateUserData(input)
    \/ CallSettles

\* the markup fetch of call i settles
FetchSettles(i) ==
    /\ i \in 1..Len(navs)
    /\ FetchOk(i) \/ FetchFailed(i)

\* the read of the markup body of call i settles
TextSettles(i) ==
    /\ i \in 1..Len(navs)
    /\ TextOk(i) \/ TextFailed(i)

\* every pending fetch and every pending body read settles
EverySettles ==
    \A i \in 1..MaxNavs :
        /\ WF_vars(FetchSettles(i))
        /\ WF_vars(TextSettles(i))

Spec == Init /\ [][Next]_vars

SpecStart == Init /\ [][NextStart]_vars

SpecAssets == Init /\ [][NextAssets]_vars

SpecArena == Init /\ [][NextArena]_vars

SpecNav == Init /\ [][NextNav]_vars

SpecLive == Init /\ [][NextNav]_vars /\ EverySettles

SpecData == Init /\ [][NextData]_vars

SpecApp == Init /\ [][NextApp]_vars

SpecEarlier == Init /\ [][NextEarlier]_vars

SpecFixedHost == Init /\ [][NextFixedHost]_vars

\* ======================================================================
\* Properties
\* ======================================================================
HostHeaders(initData) ==
    (ContentType :> ApplicationJson) @@ (XTelegramInitData :> initData)

AnonymousHeaders == (ContentType :> ApplicationJson)

Resolved == lastRequest.site # "none"

C2_DevBypass ==
    (~winTelegram.present /\ enableDevMode) =>
        /\ XDevAuth \in DOMAIN getAuthHeaders
        /\ getAuthHeaders[XDevAuth] = devAuthHeader
        /\ XDevAuth \in DOMAIN defaultHeaders

C4_NeverCached ==
    [][lastRequest' # lastRequest =>
          lastRequest'.resolved = AuthHeadersOf(TelegramInit(winTelegram).initData)]_vars

\* C4 (amended): the init data is captured once, at construction, and never
\* re-read: no step, a change of the host signals included, changes what a
\* resolution returns, so every resolution returns the header set for the
\* signals seen at start-up.
C4_StartupSignalsDecide ==
    [][/\ telegramApp' = telegramApp
       /\ getAuthHeaders' = getAuthHeaders
       /\ lastRequest' # lastRequest => lastRequest'.resolved = getAuthHeaders]_vars

\* C4 witness: the host appeared after start-up, and a request went out
\* without an identity header.
C4_Witness ==
    /\ winTelegram.present
    /\ winTelegram.initData = "query_id=1"
    /\ telegramApp.initData = null
    /\ lastRequest.site = "ArenaApp.apiRequest"
    /\ lastRequest.headers = AnonymousHeaders

\* C5: a navigation to a page name without a registered path fails with the
\* not-found error and issues no network request.
C5_UnknownPageNoRequest ==
    \A i \in 1..Len(navs) :
        navs[i].pageName \notin DOMAIN paths =>
            /\ navs[i].pc = "done"
            /\ navs[i].error = "not found"
            /\ navs[i].requests = 0

\* C5 witness: navigateToPage("doesNotExist") was called.
C5_Witness ==
    \E i \in 1..Len(navs) :
        /\ navs[i].pageName = "doesNotExist"
        /\ navs[i].error = "not found"
        /\ navs[i].requests = 0
        /\ appContent = ShowError(FailedToLoadPage("doesNotExist"))

\* the step in which the markup fetch of call i fails
MarkupFetchFails(i) ==
    /\ navs[i].pc = "fetch"
    /\ navs'[i].pc = "done"

\* C6 (as claimed): when the markup fetch of a navigation fails, currentPage
\* is unchanged and #app still shows what it showed before.
C6_FetchFailureKeepsContent ==
    [][\A i \in 1..Len(navs) :
          MarkupFetchFails(i) =>
              /\ currentPage' = currentPage
              /\ appContent' = appContent]_vars

\* C6 (amended): when the markup fetch of a navigation fails, currentPage and
\* the reserved style and script elements are unchanged, and #app shows the
\* error panel "Failed to load page: <name>" instead of its previous content.
C6_FetchFailureShowsError ==
    [][\A i \in 1..Len(navs) :
          MarkupFetchFails(i) =>
              /\ currentPage' = currentPage
              /\ head' = head
              /\ appContent' = <<"error-container",
                                 <<"Failed to load page: ", navs[i].pageName>> >>]_vars

\* C6 witness: "main" is active and the markup fetch of "profile" failed.
C6_Witness ==
    /\ currentPage = "main"
    /\ CountId(head, PageCssId) = 1
    /\ appContent = <<"error-container", <<"Failed to load page: ", "profile">> >>
    /\ \E i \in 1..Len(navs) :
          /\ navs[i].pageName = "profile"
          /\ navs[i].error \in {"rejected", "not ok"}

NoOverlap == \A i \in 1..Len(navs) : ~navs[i].overlapped

Succeeded(i) == navs[i].pc = "done" /\ navs[i].error = ""

\* C7: after one or more successful navigations issued one after the other
\* (each after the previous one completed), the document holds exactly one
\* element with id page-css and exactly one with id page-js.
C7_SequentialExactlyOne ==
    (NoOverlap /\ \E i \in 1..Len(navs) : Succeeded(i)) =>
        /\ CountId(head, PageCssId) = 1
        /\ CountId(head, PageJsId) = 1

\* C7 witness: navigateToPage("main") ran to completion twice in sequence.
C7_Witness ==
    /\ Len(navs) >= 2
    /\ NoOverlap
    /\ navs[1].pageName = "main" /\ Succeeded(1)
    /\ navs[2].pageName = "main" /\ Succeeded(2)
    /\ CountId(head, PageCssId) = 1
    /\ CountId(head, PageJsId) = 1

\* position of an await of call i in the order in which awaits settled
Pos(kind, i) == CHOOSE k \in 1..Len(settled) : settled[k] = <<kind, i>>

\* the markup body of a page as it is shown in #app
PageContent(pageName) ==
    <<"<div class=page-container>", <<paths[pageName], "index.html">>, "</div>">>

TwoSucceeded ==
    /\ Len(navs) = 2
    /\ Succeeded(1)
    /\ Succeeded(2)

\* C8 (as claimed): navigate(a), then navigate(b) before a's fetch resolves;
\* b's fetch settles first, a's second, both successfully: the final content
\* and currentPage are a's.
C8_LastFetchWins ==
    (TwoSucceeded /\ Pos("fetch", 2) < Pos("fetch", 1)) =>
        /\ currentPage = navs[1].pageName
        /\ appContent = PageContent(navs[1].pageName)

\* C8 (amended): of two overlapping successful navigations the one whose
\* markup body read (htmlResponse.text(), the last await) settles last
\* determines the final content and currentPage, whatever the order in which
\* they were issued or in which their fetches settled.
C8_LastBodyReadWins ==
    TwoSucceeded =>
        /\ Pos("text", 2) < Pos("text", 1) =>
              /\ currentPage = navs[1].pageName
              /\ appContent = PageContent(navs[1].pageName)
        /\ Pos("text", 1) < Pos("text", 2) =>
              /\ currentPage = navs[2].pageName
              /\ appContent = PageContent(navs[2].pageName)

\* C8 witness: a = "main" issued first, b = "profile" second; b's fetch and
\* body read settled before a's; "main" is what is shown.
C8_Witness ==
    /\ TwoSucceeded
    /\ navs[1].pageName = "main"
    /\ navs[2].pageName = "profile"
    /\ Pos("fetch", 2) < Pos("fetch", 1)
    /\ Pos("text", 2) < Pos("text", 1)
    /\ currentPage = "main"
    /\ appContent = PageContent("main")

\* C9: the headers App.apiRequest sends are the union of the resolver's and
\* the caller's headers; on a key both have, the caller's value is sent.
C9_CallerHeadersWin ==
    lastRequest.site = "App.apiRequest" =>
        /\ lastRequest.resolved = defaultHeaders
        /\ DOMAIN lastRequest.headers =
              (DOMAIN lastRequest.resolved) \cup (DOMAIN lastRequest.extra)
        /\ \A k \in DOMAIN lastRequest.extra :
              lastRequest.headers[k] = lastRequest.extra[k]
        /\ \A k \in (DOMAIN lastRequest.resolved) \ (DOMAIN lastRequest.extra) :
              lastRequest.headers[k] = lastRequest.resolved[k]

\* C9 witness: the caller overrides Content-Type and adds X-Custom, the
\* resolver contributes the init data.
C9_Witness ==
    /\ lastRequest.site = "App.apiRequest"
    /\ lastRequest.extra = (ContentType :> "text/plain") @@ ("X-Custom" :> "1")
    /\ lastRequest.resolved = HostHeaders("query_id=1")
    /\ lastRequest.headers[ContentType] = "text/plain"
    /\ lastRequest.headers["X-Custom"] = "1"
    /\ lastRequest.headers[XTelegramInitData] = "query_id=1"

\* C10: in every reachable state, overlapping navigations included, the
\* document holds at most one element with id page-css and at most one with
\* id page-js: each swap removes the existing element before it inserts.
C10_AtMostOneReserved ==
    /\ CountId(head, PageCssId) <= 1
    /\ CountId(head, PageJsId) <= 1

\* C10 witness: two overlapping navigations both committed.
C10_Witness ==
    /\ Len(navs) >= 2
    /\ navs[2].overlapped
    /\ Succeeded(1)
    /\ Succeeded(2)
    /\ navs[1].pageName # navs[2].pageName
    /\ CountId(head, PageCssId) = 1
    /\ CountId(head, PageJsId) = 1

\* identity headers of a header set
IdentityHeaders(h) == (DOMAIN h) \cap {XTelegramInitData, XDevAuth}

\* C11: every resolved header set contains Content-Type; a host or devBypass
\* set carries exactly one identity header and an anonymous set none; no set
\* carries both X-Telegram-Init-Data and X-Dev-Auth.
C11_HeaderSetInvariants ==
    \A h \in {getAuthHeaders, defaultHeaders}
               \cup (IF Resolved THEN {lastRequest.resolved} ELSE {}) :
        /\ ContentType \in DOMAIN h
        /\ h[ContentType] = "application/json"
        /\ ~({XTelegramInitData, XDevAuth} \subseteq DOMAIN h)
        /\ ModeOf(h) \in {"host", "devBypass"} => Cardinality(IdentityHeaders(h)) = 1
        /\ ModeOf(h) = "anonymous" => IdentityHeaders(h) = {}
        /\ DOMAIN h \subseteq {ContentType, XTelegramInitData, XDevAuth}

\* C11 witness: a host-mode set and an anonymous set side by side: the
\* request went out with the init data, the host has gone since.
C11_Witness ==
    /\ ~winTelegram.present
    /\ lastRequest.site = "App.apiRequest"
    /\ IdentityHeaders(lastRequest.resolved) = {XTelegramInitData}
    /\ lastRequest.extra = ("X-Custom" :> "1")

\* C12: resolving the headers is total and free of side effects: for every
\* combination of host presence, init data and dev mode a step that sends a
\* request has a resolved header set, and it changes nothing but the record
\* of the request sent.
C12_ResolveSideEffectFree ==
    [][lastRequest' # lastRequest =>
          /\ ContentType \in DOMAIN lastRequest'.resolved
          /\ lastRequest'.resolved \in {getAuthHeaders, defaultHeaders}
          /\ UNCHANGED <<envVars, docVars, navs, settled, dataVars>>]_vars

\* C12 witness: a request was resolved while the host exposed an empty
\* init-data string, with dev mode on, after the host had changed.
C12_Witness ==
    /\ winTelegram.present
    /\ winTelegram.initData = ""
    /\ enableDevMode
    /\ telegramApp.initData = "query_id=1"
    /\ lastRequest.site = "ArenaApp.apiRequest"
    /\ lastRequest.resolved = HostHeaders("query_id=1")

\* the step in which navigateToPage is called with an unregistered name
LookupFails ==
    /\ Len(navs') = Len(navs) + 1
    /\ navs'[Len(navs')].error = "not found"

\* C13 (as claimed): when the path lookup fails the document is unchanged,
\* #app, the reserved elements and currentPage are what they were, and the
\* not-found error reaches the caller of navigateToPage.
C13_LookupFailureLeavesDocument ==
    [][LookupFails =>
          /\ appContent' = appContent
          /\ head' = head
          /\ currentPage' = currentPage
          /\ navs'[Len(navs')].promise = "rejected"]_vars

\* C13 (amended): when the path lookup fails the reserved elements and
\* currentPage are what they were and no request is sent, but #app is
\* replaced by the error panel "Failed to load page: <name>", and the error
\* is caught inside navigateToPage: its promise fulfils.
C13_LookupFailureShowsError ==
    [][LookupFails =>
          /\ head' = head
          /\ currentPage' = currentPage
          /\ appContent' = <<"error-container",
                             <<"Failed to load page: ",
                               navs'[Len(navs')].pageName>> >>
          /\ navs'[Len(navs')].promise = "fulfilled"
          /\ navs'[Len(navs')].pc = "done"]_vars

\* C13 witness: "profile" is active, then navigateToPage("doesNotExist")
\* replaced its content by the error panel.
C13_Witness ==
    /\ Len(navs) = 2
    /\ navs[1].pageName = "profile" /\ Succeeded(1)
    /\ navs[2].error = "not found"
    /\ navs[2].promise = "fulfilled"
    /\ currentPage = "profile"
    /\ CountId(head, PageJsId) = 1
    /\ appContent = <<"error-container", <<"Failed to load page: ", "doesNotExist">> >>

C15_ExactlyOneRequest ==
    \A i \in 1..Len(calls) :
        /\ calls[i].requests = 1
        /\ calls[i].error # "" =>
              /\ calls[i].pc = "done"
              /\ calls[i].promise = "rejected"

\* C15 witness: the fetch of App.apiRequest was rejected, after one request.
C15_Witness ==
    \E i \in 1..Len(calls) :
        /\ calls[i].site = "App.apiRequest"
        /\ calls[i].error = "network"
        /\ calls[i].requests = 1
        /\ calls[i].promise = "rejected"

\* the step in which the body of a success response of call i fails to parse
CallParseFails(i) ==
    /\ calls[i].pc = "json"
    /\ calls'[i].error = "parse"

\* C16: when a response has a success status and a body that is not JSON,
\* the call fails, the parse error reaches its caller, and the stored user
\* records are what they were.
C16_ParseFailureKeepsUser ==
    [][/\ \A i \in 1..Len(calls) :
             CallParseFails(i) =>
                 /\ calls[i].status \in 200..299
                 /\ calls'[i].pc = "done"
                 /\ calls'[i].promise = "rejected"
                 /\ calls'[i].body = noBody
                 /\ currentUserData' = currentUserData
                 /\ currentUser' = currentUser
       /\ (auth.pc = "json" /\ auth'.error = "parse") =>
             /\ auth.status \in 200..299
             /\ auth'.pc = "done"
             /\ currentUser' = currentUser
             /\ currentUserData' = currentUserData]_vars

\* C16 witness: the body of a 200 response to loadUserData did not parse.
C16_Witness ==
    \E i \in 1..Len(calls) :
        /\ calls[i].site = "ArenaApp.apiRequest"
        /\ calls[i].status = 200
        /\ calls[i].error = "parse"
        /\ currentUserData = nullObject

\* the step in which navigation i fails: at the lookup, at the markup fetch
\* or at the read of the markup body
NavigationFails(i) ==
    /\ i \in 1..Len(navs')
    /\ navs'[i].error # ""
    /\ i \in 1..Len(navs) => navs[i].error = ""

\* the reserved elements are those of the page, or none for no page
HeadDescribes(h, pageName) ==
    IF pageName = null THEN h = <<>>
    ELSE h = << [id |-> "page-css", tag |-> "link",
                 url |-> <<paths[pageName], "style.css">>],
                [id |-> "page-js", tag |-> "script",
                 url |-> <<paths[pageName], "app.js">>] >>

\* #app, the reserved elements and currentPage describe one view: a page, or
\* the shell the application started with
DescribesOneView ==
    /\ HeadDescribes(head, currentPage)
    /\ IF currentPage = null
       THEN appContent \in {<<"welcome">>,
                            <<"error-container",
                              <<"This app must be opened from Telegram">> >>}
       ELSE appContent = PageContent(currentPage)

\* C17 (as claimed): after a failed navigation #app, the reserved elements
\* and currentPage together describe the previous or the new view, never a
\* mixture.
C17_FailureLeavesOneView ==
    [][\A i \in 1..(Len(navs) + 1) : NavigationFails(i) => DescribesOneView']_vars

\* C17 (amended): after a failed navigation the reserved elements and
\* currentPage are those of the previous view, unchanged and matching each
\* other, while #app shows the error panel "Failed to load page: <name>":
\* the document is a mixture of the previous view and the error panel.
C17_FailureKeepsAssetsShowsError ==
    [][\A i \in 1..(Len(navs) + 1) :
          NavigationFails(i) =>
              /\ head' = head
              /\ currentPage' = currentPage
              /\ HeadDescribes(head', currentPage')
              /\ appContent' = <<"error-container",
                                 <<"Failed to load page: ", navs'[i].pageName>> >>
              /\ ~DescribesOneView']_vars

\* C17 witness: "main" is active, the body read of "profile" failed: the
\* style and script of "main" are in place under the error panel.
C17_Witness ==
    /\ Len(navs) = 2
    /\ navs[1].pageName = "main" /\ Succeeded(1)
    /\ navs[2].pageName = "profile" /\ navs[2].error = "body"
    /\ currentPage = "main"
    /\ HeadDescribes(head, "main")
    /\ appContent = <<"error-container", <<"Failed to load page: ", "profile">> >>

\* #app shows the error panel with its Retry button
IsErrorPanel(content) == content[1] = "error-container"

\* the step in which authenticateUser fails
AuthenticationFails == auth.error = "" /\ auth'.error # ""

\* the step in which call i of App.apiRequest fails
AppCallFails(i) ==
    /\ calls[i].site = "App.apiRequest"
    /\ calls[i].error = ""
    /\ calls'[i].error # ""

\* C18 (as claimed): every failure of a navigation, of the authentication or
\* of a data call is shown as the error panel with its Retry button.
C18_EveryFailureShown ==
    [][/\ \A i \in 1..(Len(navs) + 1) : NavigationFails(i) => IsErrorPanel(appContent')
       /\ AuthenticationFails => IsErrorPanel(appContent')
       /\ \A i \in 1..Len(calls) : AppCallFails(i) => IsErrorPanel(appContent')]_vars

\* C18 (amended): a failed navigation shows the error panel "Failed to load
\* page: <name>" and a failed authentication the error panel "Authentication
\* failed"; a failed App.apiRequest shows nothing: #app is left as it is and
\* the failure is the rejection of the promise its caller holds.
C18_FailuresShownOrRejected ==
    [][/\ \A i \in 1..(Len(navs) + 1) :
             NavigationFails(i) =>
                 appContent' = <<"error-container",
                                 <<"Failed to load page: ", navs'[i].pageName>> >>
       /\ AuthenticationFails =>
             appContent' = <<"error-container", <<"Authentication failed">> >>
       /\ \A i \in 1..Len(calls) :
             AppCallFails(i) =>
                 /\ appContent' = appContent
                 /\ calls'[i].promise = "rejected"]_vars

\* C18 witness: App.apiRequest failed with 404 while the welcome shell was
\* shown, and the welcome shell is still shown.
C18_Witness ==
    /\ appContent = <<"welcome">>
    /\ \E i \in 1..Len(calls) :
          /\ calls[i].site = "App.apiRequest"
          /\ calls[i].status = 404
          /\ calls[i].error = "http"
          /\ calls[i].promise = "rejected"

\* the user record a caller is to store for a parsed response
ExpectedUser(body) ==
    IF "user" \in DOMAIN body THEN body.user ELSE body

\* C19: the callers accept both response shapes: after a successful
\* authentication the stored user record is response.user for an envelope
\* and the whole response for a bare user object.
C19_BothShapesAccepted ==
    (auth.pc = "done" /\ auth.error = "") => currentUser = ExpectedUser(auth.body)

\* C20: currentPage changes only in the last step of navigateToPage, after
\* the markup was fetched and read, and it is replaced as a whole by the
\* name of the page; authentication, data calls and the error display leave
\* it as it is.
C20_OnlyNavigateSetsPage ==
    [][currentPage' # currentPage =>
          \E i \in 1..Len(navs) :
              /\ navs[i].pc = "text"
              /\ navs'[i].pc = "done"
              /\ navs'[i].error = ""
              /\ currentPage' = navs[i].pageName
              /\ currentPage' \in DOMAIN paths
              /\ auth' = auth
              /\ calls' = calls]_vars

\* C20 witness: authentication succeeded, a data call failed, a navigation
\* failed and showed the error panel, and "main" is the page.
C20_Witness ==
    /\ currentPage = "main"
    /\ auth.pc = "done" /\ auth.error = ""
    /\ \E i \in 1..Len(calls) : calls[i].error # ""
    /\ \E i \in 1..Len(navs) : navs[i].error = "not found"
    /\ IsErrorPanel(appContent)

\* the navigations that committed
Committed == {i \in 1..Len(navs) : Succeeded(i)}

\* the name of the page whose commit came last, null before the first commit
LastCommitted ==
    IF Committed = {} THEN null
    ELSE navs[CHOOSE i \in Committed :
                 \A j \in Committed : Pos("text", j) <= Pos("text", i)].pageName

\* C21: the application starts with no page (currentPage = null, no
\* reserved element); currentPage becomes a name only through a
\* navigateToPage call for that name that issued its fetch and passed both
\* awaits (Loading), and it is always the name of the navigation that
\* committed last.
C21_ActiveOnlyFromLoading ==
    /\ navs = <<>> => (currentPage = null /\ head = <<>>)
    /\ currentPage = LastCommitted
    /\ currentPage # null =>
          \E i \in Committed :
              /\ navs[i].pageName = currentPage
              /\ navs[i].requests = 1
              /\ Pos("fetch", i) < Pos("text", i)

\* C21 witness: "main" was loaded and shown, then "profile".
C21_Witness ==
    /\ Len(navs) = 2
    /\ NoOverlap
    /\ navs[1].pageName = "main" /\ Succeeded(1)
    /\ navs[2].pageName = "profile" /\ Succeeded(2)
    /\ currentPage = "profile"

\* the step in which the load of a reserved element's resource fails
AssetLoadFails ==
    \E k \in {"css", "js"} : assetLoad[k] = "loading" /\ assetLoad'[k] = "error"

\* C22: once navigateToPage has replaced the content of #app the transition
\* is committed: the reserved elements are in place and currentPage is the
\* new name before their resources load, and when the load of the style or
\* the script fails the markup stays displayed and currentPage stays the
\* new name.
C22_CommittedBeforeAssetsLoad ==
    [][/\ AssetLoadFails =>
             /\ currentPage # null
             /\ appContent' = appContent
             /\ currentPage' = currentPage
             /\ head' = head
             /\ navs' = navs
       /\ \A i \in 1..Len(navs) :
             (navs[i].pc = "text" /\ navs'[i].pc = "done" /\ navs'[i].error = "") =>
                 /\ assetLoad' = [css |-> "loading", js |-> "loading"]
                 /\ currentPage' = navs[i].pageName
                 /\ appContent' = PageContent(navs[i].pageName)]_vars

\* C22 witness: "main" is shown and is the current page; neither its
\* stylesheet nor its script could be loaded.
C22_Witness ==
    /\ assetLoad = [css |-> "error", js |-> "error"]
    /\ currentPage = "main"
    /\ appContent = PageContent("main")
    /\ CountId(head, PageCssId) = 1

C24_ContentMatchesPage ==
    \/ appContent = <<"welcome">>
    \/ appContent[1] = "error-container"
    \/ /\ currentPage \in DOMAIN paths
       /\ appContent = <<"<div class=page-container>",
                         <<paths[currentPage], "index.html">>, "</div>">>

\* C24 witness: two overlapping navigations committed, the one issued first
\* last; its markup is shown and it is the current page.
C24_Witness ==
    /\ Len(navs) = 2
    /\ navs[1].pageName = "profile" /\ Succeeded(1)
    /\ navs[2].pageName = "main" /\ Succeeded(2)
    /\ navs[2].overlapped
    /\ currentPage = "profile"
    /\ appContent = PageContent("profile")

\* C25: in every reachable state, if currentPage is a page then exactly one
\* page-css and one page-js element exist and point at that page's style.css
\* and app.js; if currentPage is null neither element exists; failed
\* navigations included.
C25_ReservedElementsMatchPage ==
    IF currentPage = null
    THEN /\ CountId(head, "page-css") = 0
         /\ CountId(head, "page-js") = 0
    ELSE /\ currentPage \in DOMAIN paths
         /\ \E i \in 1..Len(head) :
               /\ head[i].id = "page-css"
               /\ head[i].url = <<paths[currentPage], "style.css">>
         /\ \E i \in 1..Len(head) :
               /\ head[i].id = "page-js"
               /\ head[i].url = <<paths[currentPage], "app.js">>
         /\ \A i \in 1..Len(head) :
               head[i].url[1] = paths[currentPage]

\* C25 witness: "profile" is the current page, a later navigation to "main"
\* failed at its fetch, and the reserved elements are those of "profile".
C25_Witness ==
    /\ Len(navs) = 2
    /\ navs[1].pageName = "profile" /\ Succeeded(1)
    /\ navs[2].pageName = "main" /\ navs[2].error = "rejected"
    /\ currentPage = "profile"
    /\ IsErrorPanel(appContent)
    /\ \E i \in 1..Len(head) : head[i].url = <<"pages/profile/", "style.css">>

\* C26: every navigation that was started finishes once its fetch and its
\* body read have settled: it is done, with the page committed or the error
\* shown, and the promise navigateToPage returned is fulfilled; none stays
\* pending forever.
C26_EveryNavigationFinishes ==
    \A i \in 1..MaxNavs :
        (Len(navs) >= i) ~>
            (/\ Len(navs) >= i
             /\ navs[i].pc = "done"
             /\ navs[i].promise = "fulfilled"
             /\ navs[i].error = "" => <<"text", i>> \in {settled[k] : k \in 1..Len(settled)})

\* C26 witness: one navigation failed at the read of its body, an
\* overlapping one committed, and both promises are fulfilled.
C26_Witness ==
    /\ Len(navs) = 2
    /\ navs[1].error = "body" /\ navs[1].promise = "fulfilled"
    /\ navs[2].overlapped /\ Succeeded(2) /\ navs[2].promise = "fulfilled"
    /\ currentPage = navs[2].pageName

ParsedUpdateData == {[members |-> <<"\"level\"", [scalar |-> "1"]>>]}

\* the step in which ArenaApp.updateUserData refuses its input
UpdateRefused ==
    /\ arenaStatus' # arenaStatus
    /\ arenaStatus' \in {"Please enter some data to update", "Invalid JSON format"}

\* C28: ArenaApp.updateUserData with an input that is empty after trimming
\* or that is not JSON sends no request and leaves currentUserData as it
\* is; every request it sends carries { user_data: <parsed input> } for an
\* input that is not empty and parses.
C28_InvalidInputSendsNothing ==
    [][/\ UpdateRefused =>
             /\ calls' = calls
             /\ lastRequest' = lastRequest
             /\ currentUserData' = currentUserData
       /\ \A i \in 1..Len(calls') :
             calls'[i].op = "updateUserData" =>
                 /\ calls'[i].requests = 1
                 /\ calls'[i].sent \in {[user_data |-> v] : v \in ParsedUpdateData}]_vars

\* C28 witness: user data was loaded, then an input that is not JSON was
\* refused: one call, and the loaded record is still stored.
C28_Witness ==
    /\ arenaStatus = "Invalid JSON format"
    /\ Len(calls) = 1
    /\ calls[1].op = "loadUserData"
    /\ calls[1].pc = "done" /\ calls[1].error = ""
    /\ currentUserData = UserObject

\* the step in which call i of an ArenaApp operation fails
ArenaCallFails(i) ==
    /\ calls[i].site = "ArenaApp.apiRequest"
    /\ calls[i].error = ""
    /\ calls'[i].error # ""

\* C29: when loadUserData or updateUserData of ArenaApp fails (rejected
\* request, status outside the success range, body that does not parse),
\* currentUserData keeps its value and the error stays inside the
\* operation: its promise is fulfilled.
C29_ArenaFailureKeepsData ==
    [][\A i \in 1..Len(calls) :
          ArenaCallFails(i) =>
              /\ currentUserData' = currentUserData
              /\ calls'[i].pc = "done"
              /\ calls'[i].promise = "rejected"
              /\ calls'[i].opPromise = "fulfilled"
              /\ arenaStatus' \in {"Failed to load user data",
                                   "Failed to update user data"}]_vars

\* C29 witness: a load stored the user record, then an update was refused
\* by the server with 404: the record is still stored.
C29_Witness ==
    /\ Len(calls) = 2
    /\ calls[1].op = "loadUserData" /\ calls[1].error = "" /\ calls[1].pc = "done"
    /\ calls[2].op = "updateUserData" /\ calls[2].status = 404
    /\ calls[2].error = "http"
    /\ calls[2].opPromise = "fulfilled"
    /\ currentUserData = UserObject

\* the step in which call i of an ArenaApp operation succeeds
ArenaCallSucceeds(i) ==
    /\ calls[i].site = "ArenaApp.apiRequest"
    /\ calls[i].pc = "json"
    /\ calls'[i].pc = "done"
    /\ calls'[i].error = ""

\* C30: when loadUserData and updateUserData calls of ArenaApp overlap,
\* every successful response overwrites currentUserData with its user
\* payload when it settles and nothing else changes it, so after all calls
\* have settled it is the payload of the successful response that settled
\* last, whatever the order of issue.
C30_LastSettledResponseWins ==
    [][/\ \A i \in 1..Len(calls) :
             ArenaCallSucceeds(i) =>
                 currentUserData' = ExpectedUser(calls'[i].body)
       /\ currentUserData' # currentUserData =>
             \E i \in 1..Len(calls) : ArenaCallSucceeds(i)]_vars

\* C30 witness: a load and then an update were issued; the update's
\* response settled first, the load's last: the load's payload is stored.
C30_Witness ==
    /\ Len(calls) = 2
    /\ calls[1].op = "loadUserData" /\ calls[1].pc = "done"
    /\ calls[2].op = "updateUserData" /\ calls[2].pc = "done"
    /\ calls[1].body = UserObject
    /\ calls[2].body = [user |-> UpdatedUserObject]
    /\ currentUserData = UserObject

====
